---- MODULE Spec2Model ----
(***************************************************************************)
(* Model of package form of environschema: PromptingFiller.Fill driving a  *)
(* Prompter (form.go), with the field ordering of fieldSlice and the       *)
(* primitive coercions applied to each response.                           *)
(*                                                                         *)
(* Go values of type interface{} are records [kind, v]; Go errors are      *)
(* sequences of message parts (errgo.Notef prepends one part), the nil     *)
(* error being the empty sequence.                                         *)
(***************************************************************************)
EXTENDS Integers, Sequences, FiniteSets, TLC

VARIABLES
    Title,      \* form.Title
    Fields,     \* form.Fields: a function from field names to Attr records
    MaxTries,   \* PromptingFiller.MaxTries
    pc,         \* position in Fill: "start", "range", "done", "aborted"
    fs,         \* the fieldSlice of Fill, after sort.Sort
    k,          \* index in fs of the field the range loop of Fill is at
    i,          \* loop counter of prompt() for that field
    values,     \* the values map of Fill
    result,     \* the map returned by Fill: [isNil, m]
    err,        \* the error returned by Fill
    calls,      \* the calls received by the Prompter, in order
    env,        \* the process environment read by os.Getenv
    ioAttr,     \* the attr argument of IOPrompter.Prompt
    inTerminal, \* p.In is an *os.File on a terminal
    outFails,   \* p.Out is a writer whose Write fails
    ioPc,       \* position in IOPrompter: "start", "read", "password", "done", "shown"
    def,        \* the local def of IOPrompter.Prompt
    outBuf,     \* the bytes written to p.Out
    reads,      \* what the calls of r.Read returned, in order
    input,      \* the local input of readLine
    ret,        \* what IOPrompter.Prompt returned: [val, err]
    rev,        \* the revision of fields.go: "default" (Attr.Default) or "attrs" (Tattrs)
    sFields,    \* the receiver s of Fields.ValidationSchema
    spc,        \* position in ValidationSchema: "range", "returned", "panicked"
    visited,    \* the names the range loop of ValidationSchema has visited
    fields,     \* the local fields of ValidationSchema
    defaults,   \* the local defaults of ValidationSchema
    sret,       \* what ValidationSchema returned: [fields, defaults, err]
    coerceIn,   \* the last Coerce call on a returned checker: [name, raw]
    coerceOut,  \* what that call did: [status, val, err]
    prevRun,    \* the Fill before this one on the same form: [set, calls]
    prevCompile, \* the ValidationSchema before this one on the same Fields: [set, spc, sret]
    aTokens,    \* a list of tokens, the input of attrsC.Coerce as a sequence
    aEntries,   \* a map of strings, the input of attrsC.Coerce as a map
    outString,  \* what attrsC.Coerce did on the tokens joined into a string
    outSlice,   \* what attrsC.Coerce did on the sequence of the tokens
    outMap      \* what attrsC.Coerce did on the map

\* the state of a PromptingFiller.Fill
fillVars == <<Title, Fields, MaxTries, pc, fs, k, i, values, result, err, calls>>

\* the state of an IOPrompter.Prompt
ioVars == <<env, ioAttr, inTerminal, outFails, ioPc, def, outBuf, reads, input, ret>>

\* the state of a Fields.ValidationSchema and of the checkers it returns
schemaVars == <<rev, sFields, spc, visited, fields, defaults, sret, coerceIn, coerceOut>>

\* what an earlier call on the same input did
historyVars == <<prevRun, prevCompile>>

\* the state of the calls of attrsC.Coerce on the three shapes of one input
attrsVars == <<aTokens, aEntries, outString, outSlice, outMap>>

\* what a step of Fill leaves alone
nonFillVars == <<ioVars, schemaVars, historyVars, attrsVars>>

\* what a step of IOPrompter.Prompt leaves alone
nonIOVars == <<fillVars, schemaVars, historyVars, attrsVars>>

\* what a step of ValidationSchema or of a checker leaves alone
nonSchemaVars == <<fillVars, ioVars, historyVars, attrsVars>>

\* what a call of attrsC.Coerce leaves alone
nonAttrsVars == <<fillVars, ioVars, schemaVars, historyVars>>

vars == <<fillVars, ioVars, schemaVars, historyVars, attrsVars>>

----------------------------------------------------------------------------
(* Bounds of the model.                                                    *)

\* largest MaxTries a PromptingFiller is built with
MaxTriesBound == 2

\* field names a form draws its keys from
Names == {"a1", "b1"}

Titles == {"", "Test Title"}

\* strings in ascending byte order: Go's < on strings
StringOrder == <<"", "A", "B", "a1", "a2", "b1", "b2", "c1", "c2", "d1", "d2">>

Groups == {"A", "B"}

Descriptions == {"d1", "d2"}

Tstring == "string"

Tbool == "bool"

Tint == "int"

Tattrs == "attrs"

\* a FieldType that is none of the declared constants
Tunknown == "bogus"

FieldTypes == {Tstring, Tbool, Tint, Tattrs, Tunknown}

Attrs == [Group : Groups, Secret : BOOLEAN, Description : Descriptions,
          Type : FieldTypes]

----------------------------------------------------------------------------
(* interface{} values and errors.                                          *)

StringV(s) == [kind |-> "string", v |-> s]

BoolV(b) == [kind |-> "bool", v |-> IF b THEN "true" ELSE "false"]

IntV(n) == [kind |-> "int", v |-> n]

NilV == [kind |-> "nil", v |-> ""]

NoError == <<>>

\* errgo.New / errgo.Newf: an error of one message
New(msg) == <<msg>>

\* errgo.Notef(err, msg): msg, then ": ", then the message of err
Notef(e, msg) == <<msg>> \o e

\* the responses a Prompter returns
Responses == {StringV(""), StringV("1"), BoolV(TRUE), NilV}

\* the errors a Prompter returns
PrompterErrors == {New("test error")}

----------------------------------------------------------------------------
(* The primitive coercions of package schema that prompt() applies.        *)

\* strconv.ParseBool
ParseBool(s) ==
    IF s \in {"1", "t", "T", "TRUE", "true", "True"}
        THEN [ok |-> TRUE, val |-> BoolV(TRUE)]
    ELSE IF s \in {"0", "f", "F", "FALSE", "false", "False"}
        THEN [ok |-> TRUE, val |-> BoolV(FALSE)]
    ELSE [ok |-> FALSE, val |-> NilV]

\* strconv.ParseInt(s, 0, 64) on the strings a Prompter returns here
ParseInt(s) ==
    IF s \in {"0", "1", "3"}
        THEN [ok |-> TRUE, val |-> IntV(s)]
    ELSE [ok |-> FALSE, val |-> NilV]

\* schema.Bool().Coerce(val, nil): a bool as it is, a string parsed
CoerceBool(val) ==
    CASE val.kind = "bool" -> [ok |-> TRUE, val |-> val]
      [] val.kind = "string" -> ParseBool(val.v)
      [] OTHER -> [ok |-> FALSE, val |-> NilV]

\* schema.Int().Coerce(val, nil): an integer as int64, a string parsed
CoerceInt(val) ==
    CASE val.kind = "int" -> [ok |-> TRUE, val |-> val]
      [] val.kind = "string" -> ParseInt(val.v)
      [] OTHER -> [ok |-> FALSE, val |-> NilV]

\* schema.String().Coerce(val, nil): only a string, returned as it is
CoerceString(val) ==
    IF val.kind = "string"
        THEN [ok |-> TRUE, val |-> val]
        ELSE [ok |-> FALSE, val |-> NilV]

----------------------------------------------------------------------------
(* Field ordering: fieldSlice and sort.Sort.                               *)

StrRank(s) == CHOOSE n \in 1..Len(StringOrder) : StringOrder[n] = s

\* Go's < on strings
StrLess(s, t) == StrRank(s) < StrRank(t)

\* secrecy compared the wrong way round: return a1.Secret
LessSecretFirst(a1, a2) ==
    IF a1.Group # a2.Group THEN StrLess(a1.Group, a2.Group)
    ELSE IF a1.Secret # a2.Secret THEN a1.Secret
    ELSE StrLess(a1.Description, a2.Description)

\* fieldSlice.Less on the attrs of s[i] and s[j]
Less(a1, a2) ==
    IF a1.Group # a2.Group THEN StrLess(a1.Group, a2.Group)
    ELSE IF a1.Secret # a2.Secret THEN a2.Secret
    ELSE StrLess(a1.Description, a2.Description)

\* fieldSlice.Swap
Swap(s, p, q) == [s EXCEPT ![p] = s[q], ![q] = s[p]]

RECURSIVE SiftDown(_, _)
\* inner loop of sort.Sort's insertion sort (slices of fewer than 12 fields):
\* for j := p; j > a && data.Less(j, j-1); j-- { data.Swap(j, j-1) }
SiftDown(s, j) ==
    IF j > 1 /\ Less(s[j].attrs, s[j - 1].attrs)
        THEN SiftDown(Swap(s, j, j - 1), j - 1)
        ELSE s

RECURSIVE SortFrom(_, _)
SortFrom(s, p) == IF p > Len(s) THEN s ELSE SortFrom(SiftDown(s, p), p + 1)

\* the sorted fields, gone through twice
SortTwice(s) == SortFrom(s, 2) \o SortFrom(s, 2)

\* sort.Sort(fs)
Sort(s) == SortFrom(s, 2)

\* the orders in which "for k, v := range form.Fields" can enumerate the map
Enumerations(F) ==
    {s \in [1..Cardinality(DOMAIN F) -> DOMAIN F] :
        \A p, q \in DOMAIN s : p # q => s[p] # s[q]}

\* fs as built by the range loop of Fill from one enumeration of the map
FieldSlice(F, order) ==
    [p \in DOMAIN order |-> [name |-> order[p], attrs |-> F[order[p]]]]

----------------------------------------------------------------------------
(* PromptingFiller.prompt and PromptingFiller.Fill.                        *)

EmptyMap == [n \in {} |-> NilV]

\* an empty string left out of the map
MapPutOmitEmpty(m, key, val) ==
    IF val = [kind |-> "string", v |-> ""]
        THEN m
        ELSE [n \in DOMAIN m \cup {key} |-> IF n = key THEN val ELSE m[n]]

\* m[key] = val on a Go map
MapPut(m, key, val) ==
    [n \in DOMAIN m \cup {key} |-> IF n = key THEN val ELSE m[n]]

NilResult == [isNil |-> TRUE, m |-> EmptyMap]

\* no IOPrompter.Prompt is under way
IdleIO ==
    /\ env = EmptyMap
    /\ ioAttr = EmptyMap
    /\ inTerminal = FALSE
    /\ outFails = FALSE
    /\ ioPc = "idle"
    /\ def = <<>>
    /\ outBuf = <<>>
    /\ reads = <<>>
    /\ input = <<>>
    /\ ret = [val |-> <<>>, err |-> <<>>]

\* a nil schema.Fields or schema.Defaults
NilMap == [isNil |-> TRUE, m |-> EmptyMap]

\* no Coerce call was made
NoCoerce == [status |-> "none", val |-> NilV, err |-> <<>>]

\* no Fields.ValidationSchema is under way
IdleSchema ==
    /\ rev = "attrs"
    /\ sFields = EmptyMap
    /\ spc = "idle"
    /\ visited = {}
    /\ fields = EmptyMap
    /\ defaults = EmptyMap
    /\ sret = [fields |-> NilMap, defaults |-> NilMap, err |-> <<>>]
    /\ coerceIn = [name |-> "", raw |-> NilV]
    /\ coerceOut = NoCoerce

\* the nil error of attrsC.Coerce: [prefix, msg, arg], arg the text a
\* message quotes
NoAttrsError == [prefix |-> <<>>, msg |-> "", arg |-> <<>>]

\* no call of attrsC.Coerce was made
NoOutcome == [status |-> "none", m |-> EmptyMap, err |-> NoAttrsError]

\* no earlier call on the same input is remembered
IdleHistory ==
    /\ prevRun = [set |-> FALSE, calls |-> <<>>]
    /\ prevCompile = [set |-> FALSE, spc |-> "idle",
                      sret |-> [fields |-> NilMap, defaults |-> NilMap, err |-> <<>>]]

\* attrsC.Coerce is not under test
IdleAttrs ==
    /\ aTokens = <<>>
    /\ aEntries = EmptyMap
    /\ outString = NoOutcome
    /\ outSlice = NoOutcome
    /\ outMap = NoOutcome

\* no PromptingFiller.Fill is under way
IdleFill ==
    /\ Title = ""
    /\ Fields = EmptyMap
    /\ MaxTries = 0
    /\ pc = "idle"
    /\ fs = <<>>
    /\ k = 1
    /\ i = 0
    /\ values = EmptyMap
    /\ result = NilResult
    /\ err = <<>>
    /\ calls = <<>>

\* a default of four tries instead of three
TriesDefaultFour(m) == IF m = 0 THEN 4 ELSE m

\* the default of three tries taken for a negative MaxTries too
TriesDefaultBelowOne(m) == IF m <= 0 THEN 3 ELSE m

\* tries := f.MaxTries; if tries == 0 { tries = 3 }
Tries(m) == IF m = 0 THEN 3 ELSE m

\* off by one: i <= tries
MoreTriesInclusive(n, m) == n <= Tries(m)

\* the loop condition of prompt(): i < tries
MoreTries(n, m) == n < Tries(m)

\* the default case taken for a string: any other type is filled as a string
SwitchDefaultString(attr, val) ==
    LET c == CASE attr.Type = Tbool -> CoerceBool(val)
               [] attr.Type = Tint -> CoerceInt(val)
               [] OTHER -> CoerceString(val)
    IN  [ret |-> c.ok, val |-> c.val, err |-> NoError]

\* the switch without its default case: an unsupported type is tried again
SwitchNoDefault(attr, val) ==
    LET c == CASE attr.Type = Tbool -> CoerceBool(val)
               [] attr.Type = Tint -> CoerceInt(val)
               [] attr.Type = Tstring -> CoerceString(val)
               [] OTHER -> [ok |-> FALSE, val |-> NilV]
    IN  [ret |-> c.ok, val |-> c.val, err |-> NoError]

\* the switch returning the response as it came instead of the coerced value
SwitchRaw(attr, val) ==
    LET c == CASE attr.Type = Tbool -> CoerceBool(val)
               [] attr.Type = Tint -> CoerceInt(val)
               [] attr.Type = Tstring -> CoerceString(val)
               [] OTHER -> [ok |-> FALSE, val |-> NilV]
    IN  IF attr.Type \in {Tbool, Tint, Tstring}
            THEN [ret |-> c.ok, val |-> val, err |-> NoError]
            ELSE [ret |-> TRUE, val |-> NilV,
                  err |-> <<"unsupported attribute type", attr.Type>>]

\* the switch asking again when the response is not one of attr.Values or is
\* the empty string for a mandatory attribute
SwitchEnforcing(attr, val) ==
    LET c == CASE attr.Type = Tbool -> CoerceBool(val)
               [] attr.Type = Tint -> CoerceInt(val)
               [] attr.Type = Tstring -> CoerceString(val)
               [] OTHER -> [ok |-> FALSE, val |-> NilV]
        allowed == /\ attr.Values.isNil \/ \E j \in 1..Len(attr.Values.list) :
                                              attr.Values.list[j] = val
                   /\ ~(attr.Mandatory /\ val = StringV(""))
    IN  IF attr.Type \in {Tbool, Tint, Tstring}
            THEN [ret |-> c.ok /\ allowed, val |-> c.val, err |-> NoError]
            ELSE [ret |-> TRUE, val |-> NilV,
                  err |-> <<"unsupported attribute type", attr.Type>>]

\* the switch of prompt() on attr.Type, applied to the value Prompt returned:
\* ret says whether prompt() returns (otherwise the loop goes on)
Switch(attr, val) ==
    LET c == CASE attr.Type = Tbool -> CoerceBool(val)
               [] attr.Type = Tint -> CoerceInt(val)
               [] attr.Type = Tstring -> CoerceString(val)
               [] OTHER -> [ok |-> FALSE, val |-> NilV]
    IN  IF attr.Type \in {Tbool, Tint, Tstring}
            THEN [ret |-> c.ok, val |-> c.val, err |-> NoError]
            ELSE [ret |-> TRUE, val |-> NilV,
                  err |-> <<"unsupported attribute type", attr.Type>>]

\* a response that fails coercion taken as the field's value (nil): the loop
\* of prompt() gives up on the field and Fill goes on to the next one
IterationNoRetry(attr, r) ==
    IF r.err # NoError
        THEN [ret |-> TRUE, val |-> NilV, err |-> Notef(r.err, "cannot get input")]
        ELSE [ret |-> TRUE, val |-> Switch(attr, r.data).val, err |-> Switch(attr, r.data).err]

\* a Prompt error treated as one more invalid response
IterationRetry(attr, r) ==
    IF r.err # NoError
        THEN [ret |-> FALSE, val |-> NilV, err |-> NoError]
        ELSE Switch(attr, r.data)

\* one iteration of the loop of prompt(), given what Prompt returned
Iteration(attr, r) ==
    IF r.err # NoError
        THEN [ret |-> TRUE, val |-> NilV, err |-> Notef(r.err, "cannot get input")]
        ELSE Switch(attr, r.data)

\* returning the values collected so far together with the error
ErrorResultPartial(vals) == [isNil |-> FALSE, m |-> vals]

\* the result map Fill returns with an error
ErrorResult(vals) == NilResult

\* return nil, errgo.Notef(err, "cannot complete form")
FillAbort(name, e) ==
    /\ values' = MapPut(values, name, NilV)
    /\ result' = ErrorResult(values')
    /\ err' = Notef(e, "cannot complete form")
    /\ pc' = "aborted"
    /\ UNCHANGED <<k, i>>

\* the body of Fill after the title: build fs, sort it, make the values map
SortFields ==
    /\ \E order \in Enumerations(Fields) : fs' = Sort(FieldSlice(Fields, order))
    /\ values' = EmptyMap
    /\ k' = 1
    /\ i' = 0
    /\ pc' = "range"

\* the title shown whether it is empty or not
HasTitleAlways(t) == TRUE

\* whether Fill shows the title: form.Title != ""
HasTitle(t) == t # ""

\* the error of ShowTitle ignored
TitleFailedNever(e) == FALSE

\* if err := prompter.ShowTitle(form.Title); err != nil
TitleFailed(e) == e # NoError

TitleCall(t, e) == [op |-> "ShowTitle", name |-> t, data |-> NilV, err |-> e]

PromptCall(name, r) == [op |-> "Prompt", name |-> name, data |-> r.data, err |-> r.err]

\* Fill with a title: prompter.ShowTitle(form.Title), which fails or not
FillShowTitle ==
    /\ pc = "start"
    /\ HasTitle(Title)
    /\ \E e \in PrompterErrors \cup {NoError} :
        /\ calls' = Append(calls, TitleCall(Title, e))
        /\ IF TitleFailed(e)
              THEN /\ result' = NilResult
                   /\ err' = Notef(e, "cannot show title")
                   /\ pc' = "aborted"
                   /\ UNCHANGED <<fs, k, i, values>>
              ELSE /\ SortFields
                   /\ UNCHANGED <<result, err>>
    /\ UNCHANGED <<nonFillVars, Title, Fields, MaxTries>>

\* Fill without a title
FillNoTitle ==
    /\ pc = "start"
    /\ ~HasTitle(Title)
    /\ SortFields
    /\ UNCHANGED <<nonFillVars, Title, Fields, MaxTries, result, err, calls>>

\* an iteration of the loop of prompt() for the field fs[k]: one Prompt call,
\* the switch on its result, and the loop's exit when that was the last try
Prompt ==
    /\ pc = "range"
    /\ k <= Len(fs)
    /\ MoreTries(i, MaxTries)
    /\ \E r \in [data : Responses, err : {NoError}] \cup [data : {NilV}, err : PrompterErrors] :
        LET out == Iteration(fs[k].attrs, r) IN
        /\ calls' = Append(calls, PromptCall(fs[k].name, r))
        /\ IF ~out.ret /\ MoreTries(i + 1, MaxTries)
              THEN /\ i' = i + 1
                   /\ UNCHANGED <<pc, k, values, result, err>>
           ELSE IF ~out.ret
              THEN FillAbort(fs[k].name, New("too many invalid inputs"))
           ELSE IF out.err # NoError
              THEN FillAbort(fs[k].name, out.err)
              ELSE /\ values' = MapPut(values, fs[k].name, out.val)
                   /\ k' = k + 1
                   /\ i' = 0
                   /\ UNCHANGED <<pc, result, err>>
    /\ UNCHANGED <<nonFillVars, Title, Fields, MaxTries, fs>>

\* prompt() is entered for fs[k] and its loop makes no iteration at all:
\* errgo.New("too many invalid inputs")
TooManyInvalid ==
    /\ pc = "range"
    /\ k <= Len(fs)
    /\ ~MoreTries(i, MaxTries)
    /\ FillAbort(fs[k].name, New("too many invalid inputs"))
    /\ UNCHANGED <<nonFillVars, Title, Fields, MaxTries, fs, calls>>

\* every field is filled: return values, nil
FillReturn ==
    /\ pc = "range"
    /\ k > Len(fs)
    /\ result' = [isNil |-> FALSE, m |-> values]
    /\ err' = NoError
    /\ pc' = "done"
    /\ UNCHANGED <<nonFillVars, Title, Fields, MaxTries, fs, k, i, values, calls>>

\* the attributes of the forms filled under Spec: one group (the order across
\* groups is exercised under SpecOrder)
FillAttrs == {a \in Attrs : a.Group = "A"}

Forms == UNION {[S -> FillAttrs] : S \in SUBSET Names}

Init ==
    /\ Title \in Titles
    /\ Fields \in Forms
    /\ MaxTries \in -1..MaxTriesBound
    /\ pc = "start"
    /\ fs = <<>>
    /\ k = 1
    /\ i = 0
    /\ values = EmptyMap
    /\ result = NilResult
    /\ err = NoError
    /\ calls = <<>>
    /\ IdleIO
    /\ IdleSchema
    /\ IdleHistory
    /\ IdleAttrs

Next ==
    \/ FillShowTitle
    \/ FillNoTitle
    \/ Prompt
    \/ TooManyInvalid
    \/ FillReturn

Spec == Init /\ [][Next]_vars

----------------------------------------------------------------------------
(* What the claims speak of, read off the Prompter's call log.             *)

\* the Prompt calls received for field n, in order
PromptsFor(n) == SelectSeq(calls, LAMBDA c : c.op = "Prompt" /\ c.name = n)

\* the Prompt calls received, in order
Prompts == SelectSeq(calls, LAMBDA c : c.op = "Prompt")

SupportedTypes == {Tstring, Tbool, Tint}

\* the number of attempts the documentation of MaxTries promises
DocTries == IF MaxTries = 0 THEN 3 ELSE MaxTries

\* the coercion of a response for a field of a supported type
Coerced(attr, data) ==
    CASE attr.Type = Tbool -> CoerceBool(data)
      [] attr.Type = Tint -> CoerceInt(data)
      [] attr.Type = Tstring -> CoerceString(data)

\* the Prompt call c got a response, and the response is valid for attr
Accepted(attr, c) ==
    /\ c.err = NoError
    /\ attr.Type \in SupportedTypes
    /\ Coerced(attr, c.data).ok

\* the Prompt call c got a response, and the response fails coercion
Rejected(attr, c) ==
    /\ c.err = NoError
    /\ attr.Type \in SupportedTypes
    /\ ~Coerced(attr, c.data).ok

TooManyError == <<"cannot complete form", "too many invalid inputs">>

\* C1: every Prompt call for a field is one of its first tries calls
\* (tries = MaxTries, or 3 when MaxTries is 0), and once tries responses for
\* a field have all failed coercion Fill has failed with
\* "cannot complete form: too many invalid inputs".
C1_AtMostTries ==
    \A n \in DOMAIN Fields :
        LET ps == PromptsFor(n) IN
        /\ \A j \in 1..Len(ps) : j <= DocTries
        /\ (/\ Len(ps) = DocTries
            /\ \A j \in 1..Len(ps) : Rejected(Fields[n], ps[j]))
           => (pc = "aborted" /\ err = TooManyError)

\* an int field got three invalid responses under the default MaxTries
C1_Witness ==
    /\ MaxTries = 0
    /\ pc = "aborted"
    /\ err = TooManyError
    /\ \E n \in DOMAIN Fields :
        /\ Fields[n].Type = Tint
        /\ Len(PromptsFor(n)) = 3
        /\ \A j \in 1..3 : Rejected(Fields[n], PromptsFor(n)[j])

\* the place of field n in the prompting order
Place(n) == CHOOSE p \in 1..Len(fs) : fs[p].name = n

\* C2: when a response for a field coerces successfully it is the last
\* Prompt call ever made for that field and every earlier response for the
\* field failed coercion, the coerced value (not an earlier response, not
\* the raw one) is what is recorded under the field's name, and the loop of
\* Fill has moved on to the next field.
C2_FirstValidRecorded ==
    \A n \in DOMAIN Fields :
        LET ps == PromptsFor(n) IN
        \A j \in 1..Len(ps) :
            Accepted(Fields[n], ps[j]) =>
                /\ j = Len(ps)
                /\ j <= DocTries
                /\ \A q \in 1..(j - 1) : Rejected(Fields[n], ps[q])
                /\ n \in DOMAIN values
                /\ values[n] = Coerced(Fields[n], ps[j].data).val
                /\ k > Place(n)
                /\ pc = "done" => result.m[n] = Coerced(Fields[n], ps[j].data).val

\* "one"-like, "two"-like, then "3"-like: an int field accepted at the third
\* try, the string turned into an integer, and Fill returned it
C2_Witness ==
    /\ pc = "done"
    /\ \E n \in DOMAIN Fields :
        /\ Fields[n].Type = Tint
        /\ Len(PromptsFor(n)) = 3
        /\ Rejected(Fields[n], PromptsFor(n)[1])
        /\ Rejected(Fields[n], PromptsFor(n)[2])
        /\ PromptsFor(n)[3].data = StringV("1")
        /\ result.m[n] = IntV("1")

\* C3: whenever Fill has returned an error, the map it returned is nil.
C3_NoPartialResult ==
    (pc = "aborted" \/ err # NoError) => (result.isNil /\ err # NoError /\ pc = "aborted")

\* Fill failed on the second field after a value was collected for the first
C3_Witness ==
    /\ pc = "aborted"
    /\ result.isNil
    /\ \E n \in DOMAIN values : values[n] # NilV

----------------------------------------------------------------------------
(* Forms of string fields, for the prompting order: three free fields, and *)
(* the six fields of the "correct ordering" test.                          *)

OrderNames == {"a1", "b1", "c1"}

OrderAttrs == {a \in Attrs : a.Type = Tstring}

StringAttr(g, d, secret) ==
    [Group |-> g, Secret |-> secret, Description |-> d, Type |-> Tstring]

\* promptingFillerTests, "correct ordering"
OrderingTestFields ==
    [n \in {"a1", "b1", "c1", "a2", "b2", "c2"} |->
        StringAttr(IF n \in {"a1", "b1", "c1"} THEN "A" ELSE "B", n,
                   n \in {"b1", "b2"})]

OrderForms ==
    UNION {[S -> OrderAttrs] : S \in SUBSET OrderNames} \cup {OrderingTestFields}

InitOrder ==
    /\ Title \in Titles
    /\ Fields \in OrderForms
    /\ MaxTries \in {-1, 1}
    /\ pc = "start"
    /\ fs = <<>>
    /\ k = 1
    /\ i = 0
    /\ values = EmptyMap
    /\ result = NilResult
    /\ err = NoError
    /\ calls = <<>>
    /\ IdleIO
    /\ IdleSchema
    /\ IdleHistory
    /\ IdleAttrs

SpecOrder == InitOrder /\ [][Next]_vars

\* the place in the call log of the first Prompt call for field n
FirstPrompt(n) ==
    CHOOSE p \in 1..Len(calls) :
        /\ calls[p].op = "Prompt" /\ calls[p].name = n
        /\ \A q \in 1..(p - 1) : ~(calls[q].op = "Prompt" /\ calls[q].name = n)

Prompted(n) == \E p \in 1..Len(calls) : calls[p].op = "Prompt" /\ calls[p].name = n

\* the documented order: group, then non-secret before secret, then description
OrderedBefore(x, y) ==
    \/ StrLess(x.Group, y.Group)
    \/ x.Group = y.Group /\ ~x.Secret /\ y.Secret
    \/ x.Group = y.Group /\ x.Secret = y.Secret /\ StrLess(x.Description, y.Description)

\* C4: whenever a field y has been prompted, every field x that the documented
\* order puts before y (smaller group; same group, x non-secret and y secret;
\* same group and secrecy, smaller description) was first prompted before y
\* was, whatever order the Fields map was enumerated in.
C4_PromptOrder ==
    \A x, y \in DOMAIN Fields :
        (Prompted(y) /\ OrderedBefore(Fields[x], Fields[y]))
            => (Prompted(x) /\ FirstPrompt(x) < FirstPrompt(y))

\* the six fields of the test were prompted as a1, c1, b1, a2, c2, b2
C4_Witness ==
    /\ Fields = OrderingTestFields
    /\ pc = "done"
    /\ [p \in 1..Len(Prompts) |-> Prompts[p].name] = <<"a1", "c1", "b1", "a2", "c2", "b2">>

----------------------------------------------------------------------------

TitleCalls == SelectSeq(calls, LAMBDA c : c.op = "ShowTitle")

\* C5: with a non-empty title, once Fill is under way ShowTitle has been
\* called exactly once, with that title, and as the first call of all (so
\* before every Prompt call); with an empty title ShowTitle is never called.
C5_TitleOnceFirst ==
    /\ (Title # "" /\ pc # "start") =>
          /\ Len(TitleCalls) = 1
          /\ calls[1].op = "ShowTitle"
          /\ calls[1].name = Title
    /\ Title = "" => Len(TitleCalls) = 0
    /\ pc = "start" => calls = <<>>

\* "Test Title" was shown, then two fields were prompted and Fill returned
C5_Witness ==
    /\ Title = "Test Title"
    /\ pc = "done"
    /\ Len(TitleCalls) = 1
    /\ Len(Prompts) = 2

\* C6: when ShowTitle has returned an error, Fill has failed with
\* "cannot show title: <error>", returns no map, and no Prompt call is made.
C6_TitleErrorAborts ==
    \A p \in 1..Len(calls) :
        (calls[p].op = "ShowTitle" /\ calls[p].err # NoError) =>
            /\ pc = "aborted"
            /\ err = <<"cannot show title">> \o calls[p].err
            /\ result.isNil
            /\ Len(Prompts) = 0

\* ShowTitle failed with "test error" on a form that has fields
C6_Witness ==
    /\ DOMAIN Fields = Names
    /\ calls = <<TitleCall("Test Title", New("test error"))>>
    /\ pc = "aborted"
    /\ err = <<"cannot show title", "test error">>

\* C7: a Prompt call that returned an error is the last call the Prompter
\* ever receives in that Fill, and Fill has failed with
\* "cannot complete form: cannot get input: <error>".
C7_PromptErrorFinal ==
    \A p \in 1..Len(calls) :
        (calls[p].op = "Prompt" /\ calls[p].err # NoError) =>
            /\ p = Len(calls)
            /\ pc = "aborted"
            /\ err = <<"cannot complete form", "cannot get input">> \o calls[p].err
            /\ result.isNil

\* the first field's first Prompt failed although three tries were allowed
\* and a second field was still to be prompted
C7_Witness ==
    /\ MaxTries = 0
    /\ Len(fs) = 2
    /\ Len(calls) = 1
    /\ calls[1].op = "Prompt"
    /\ calls[1].err = New("test error")
    /\ pc = "aborted"

\* C8: a field whose type is none of string, bool, int gets at most one
\* Prompt call whatever MaxTries is, and once its Prompt call has returned a
\* response Fill has failed with
\* "cannot complete form: unsupported attribute type <type>".
C8_UnsupportedNotRetried ==
    \A n \in DOMAIN Fields :
        Fields[n].Type \notin SupportedTypes =>
            LET ps == PromptsFor(n) IN
            /\ Len(ps) <= 1
            /\ (Len(ps) = 1 /\ ps[1].err = NoError) =>
                  /\ pc = "aborted"
                  /\ result.isNil
                  /\ err = <<"cannot complete form", "unsupported attribute type",
                             Fields[n].Type>>

\* an attrs field was prompted once, with three tries allowed, and Fill failed
C8_Witness ==
    /\ MaxTries = 0
    /\ pc = "aborted"
    /\ err = <<"cannot complete form", "unsupported attribute type", "attrs">>
    /\ \E n \in DOMAIN Fields :
        /\ Fields[n].Type = Tattrs
        /\ Len(PromptsFor(n)) = 1

HasBadType == \E n \in DOMAIN Fields : Fields[n].Type \notin SupportedTypes

\* C9 as stated: a form with an attribute of unknown or unsupported type
\* never gets a Prompt call.
C9_NoPromptAtAll == HasBadType => Len(Prompts) = 0

\* C9, amended: a form with an attribute of unknown or unsupported type never
\* fills successfully, a Prompt call for such a field is the last call the
\* Prompter receives (no retry, no later field), and the fields prompted
\* before it are those the prompting order puts no later than it.
C9_FailsWhenReached ==
    /\ HasBadType => pc # "done"
    /\ \A p \in 1..Len(calls) :
          (calls[p].op = "Prompt" /\ Fields[calls[p].name].Type \notin SupportedTypes) =>
              /\ p = Len(calls)
              /\ pc = "aborted"
              /\ \A q \in 1..(p - 1) :
                    calls[q].op = "Prompt" =>
                        ~OrderedBefore(Fields[calls[p].name], Fields[calls[q].name])

\* a valid field was prompted and accepted, then the attrs field that sorts
\* after it was prompted, and Fill failed there
C9_Witness ==
    /\ pc = "aborted"
    /\ Len(Prompts) = 2
    /\ Fields[Prompts[1].name].Type \in SupportedTypes
    /\ Accepted(Fields[Prompts[1].name], Prompts[1])
    /\ Fields[Prompts[2].name].Type = Tattrs
    /\ OrderedBefore(Fields[Prompts[1].name], Fields[Prompts[2].name])

\* C10: when Fill succeeds the returned map is not nil and has exactly the
\* keys of form.Fields, and a field whose accepted response was the empty
\* string is recorded with the empty string.
C10_OneEntryPerField ==
    pc = "done" =>
        /\ ~result.isNil
        /\ err = NoError
        /\ DOMAIN result.m = DOMAIN Fields
        /\ \A n \in DOMAIN Fields :
              LET ps == PromptsFor(n) IN
              /\ Len(ps) >= 1
              /\ (Fields[n].Type = Tstring /\ ps[Len(ps)].data = StringV(""))
                    => result.m[n] = StringV("")

\* Fill returned two entries, one of them the empty string
C10_Witness ==
    /\ pc = "done"
    /\ DOMAIN result.m = Names
    /\ \E n \in Names : result.m[n] = StringV("")

----------------------------------------------------------------------------

\* the operations of the Prompter interface
PrompterOps == {"ShowTitle", "Prompt"}

\* C11 as stated: between a Prompt call whose response fails coercion and the
\* next Prompt call for the same field, the Prompter receives a call that
\* reports the failure (a call that is not a Prompt call).
C11_FailureReported ==
    \A p \in 1..Len(calls) :
        (/\ calls[p].op = "Prompt"
         /\ Rejected(Fields[calls[p].name], calls[p])
         /\ \E q \in (p + 1)..Len(calls) :
               calls[q].op = "Prompt" /\ calls[q].name = calls[p].name)
        => p < Len(calls) /\ calls[p + 1].op # "Prompt"

\* C11, amended: the Prompter only ever receives ShowTitle and Prompt calls;
\* when a response fails coercion and tries remain, nothing is reported: the
\* very next call the Prompter receives is a Prompt call for the same field,
\* and until then Fill is still at that field.
C11_RepromptedSilently ==
    /\ \A p \in 1..Len(calls) : calls[p].op \in PrompterOps
    /\ \A p \in 1..Len(calls) :
          (calls[p].op = "Prompt" /\ Rejected(Fields[calls[p].name], calls[p])) =>
              /\ p < Len(calls) =>
                    (calls[p + 1].op = "Prompt" /\ calls[p + 1].name = calls[p].name)
              /\ (p = Len(calls) /\ pc = "range") =>
                    (/\ k <= Len(fs)
                     /\ fs[k].name = calls[p].name
                     /\ i = Len(PromptsFor(calls[p].name))
                     /\ i < DocTries)

\* a rejected response, then the same field prompted again at once
C11_Witness ==
    /\ Len(calls) = 2
    /\ calls[1].op = "Prompt"
    /\ Rejected(Fields[calls[1].name], calls[1])
    /\ calls[2].op = "Prompt"
    /\ calls[2].name = calls[1].name
    /\ Len(fs) = 2

----------------------------------------------------------------------------
(* IOPrompter.Prompt, readLine and DefaultFromEnv (form.go).               *)
(* A Go string or []byte is a sequence of one-character strings.           *)

\* os.Getenv knows these variables; an unset variable reads as ""
EnvNames == {"A", "B"}

EnvValues == {<<>>, <<"1">>, <<"2", "*">>}

\* longest attr.EnvVars
MaxEnvVars == 2

\* most calls of r.Read within one readLine
MaxReads == 4

LF == "\n"

CR == "\r"

\* the bytes p.In delivers
InputBytes == {"B", CR, LF}

\* io.EOF
EOF == New("EOF")

\* io.ErrUnexpectedEOF
ErrUnexpectedEOF == New("unexpected EOF")

\* the error of a reader or writer that fails (errorWriter in the tests)
TestFailure == New("test")

\* the errors r.Read and terminal.ReadPassword return
ReadErrors == {EOF, TestFailure}

\* what one r.Read(buf[:]) on a one-byte buffer returns: (n, buf[0], err);
\* a byte may come with an error, no byte comes with one
ReadOutcomes ==
    {[n |-> 1, b |-> c, err |-> e] : c \in InputBytes, e \in {NoError} \cup ReadErrors}
        \cup {[n |-> 0, b |-> "", err |-> e] : e \in ReadErrors}

\* the lines terminal.ReadPassword returns
PasswordLines == {<<>>, <<"B">>}

\* sequences over S of length at most n
SeqUpTo(S, n) == UNION {[1..m -> S] : m \in 0..n}

\* the fields of environschema.Attr that IOPrompter.Prompt reads
IOAttrs ==
    [Description : {<<"A">>}, Secret : BOOLEAN, EnvVar : {"", "A"},
     EnvVars : SeqUpTo(EnvNames, MaxEnvVars)]

\* os.Getenv(name)
Getenv(e, name) == IF name \in DOMAIN e THEN e[name] ELSE <<>>

\* for _, envVar := range attr.EnvVars: the first non-empty value, else ""
RECURSIVE RangeEnvVars(_, _)
RangeEnvVars(e, names) ==
    IF names = <<>> THEN <<>>
    ELSE IF Getenv(e, Head(names)) # <<>> THEN Getenv(e, Head(names))
    ELSE RangeEnvVars(e, Tail(names))

\* attr.EnvVars scanned before attr.EnvVar
DefaultFromEnvListFirst(e, attr) ==
    IF RangeEnvVars(e, attr.EnvVars) # <<>> THEN RangeEnvVars(e, attr.EnvVars)
    ELSE IF attr.EnvVar # "" THEN Getenv(e, attr.EnvVar)
    ELSE <<>>

DefaultFromEnv(e, attr) ==
    IF attr.EnvVar # "" /\ Getenv(e, attr.EnvVar) # <<>>
        THEN Getenv(e, attr.EnvVar)
        ELSE RangeEnvVars(e, attr.EnvVars)

\* strings.Repeat("*", n)
Repeat(n) == [j \in 1..n |-> "*"]

\* the default shown as it is, secret or not
Def1Plain(d, secret) == d

\* def1 of IOPrompter.Prompt
Def1(d, secret) == IF secret THEN Repeat(Len(d)) ELSE d

\* prompt of IOPrompter.Prompt
PromptText(attr, d) ==
    IF Def1(d, attr.Secret) # <<>>
        THEN attr.Description \o <<" ", "(">> \o Def1(d, attr.Secret) \o <<")">>
        ELSE attr.Description

\* fmt.Fprintf(p.Out, "%s: ", prompt)
Fprintf(text) == text \o <<":", " ">>

\* readLine takes the terminal.ReadPassword branch
UsePassword(term, secret) == term /\ secret

\* io.EOF left as it is
ReadErrorKeepEOF(e) == e

\* if err == io.EOF { err = io.ErrUnexpectedEOF }
ReadError(e) == IF e = EOF THEN ErrUnexpectedEOF ELSE e

\* every trailing '\r' dropped from the line
RECURSIVE StripAllCR(_)
StripAllCR(line) ==
    IF Len(line) > 0 /\ line[Len(line)] = CR
        THEN StripAllCR(SubSeq(line, 1, Len(line) - 1))
        ELSE line

\* a trailing '\r' dropped from the line
StripCR(line) ==
    IF Len(line) > 0 /\ line[Len(line)] = CR
        THEN SubSeq(line, 1, Len(line) - 1)
        ELSE line

\* the line returned whether it is empty or not
PromptReturnInput(line, d) == line

\* if len(input) == 0 { return def, nil }; return string(input), nil
PromptReturn(line, d) == IF Len(line) = 0 THEN d ELSE line

\* IOPrompter.Prompt up to the call of readLine
PromptWrite ==
    /\ ioPc = "start"
    /\ def' = DefaultFromEnv(env, ioAttr)
    /\ IF outFails
          THEN /\ outBuf' = outBuf
               /\ ret' = [val |-> <<>>, err |-> Notef(TestFailure, "cannot write prompt")]
               /\ ioPc' = "done"
          ELSE /\ outBuf' = outBuf \o Fprintf(PromptText(ioAttr, DefaultFromEnv(env, ioAttr)))
               /\ ret' = ret
               /\ ioPc' = IF UsePassword(inTerminal, ioAttr.Secret)
                             THEN "password" ELSE "read"
    /\ UNCHANGED <<nonIOVars, env, ioAttr, inTerminal, outFails, reads, input>>

\* one iteration of the loop of readLine and, when the loop is left, the rest
\* of readLine and of IOPrompter.Prompt
Read ==
    /\ ioPc = "read"
    /\ Len(reads) < MaxReads
    /\ \E o \in ReadOutcomes :
          /\ reads' = Append(reads, o)
          /\ IF o.n = 1 /\ o.b = LF
                THEN /\ input' = StripCR(input)
                     /\ ret' = [val |-> PromptReturn(StripCR(input), def),
                                err |-> NoError]
                     /\ ioPc' = "done"
                ELSE /\ input' = IF o.n = 1 THEN Append(input, o.b) ELSE input
                     /\ IF o.err # NoError
                           THEN /\ ret' = [val |-> <<>>,
                                           err |-> Notef(ReadError(o.err),
                                                         "cannot read input")]
                                /\ ioPc' = "done"
                           ELSE /\ ret' = ret
                                /\ ioPc' = "read"
    /\ UNCHANGED <<nonIOVars, env, ioAttr, inTerminal, outFails, def, outBuf>>

\* readLine on a terminal for a secret attribute: terminal.ReadPassword, then
\* the deferred newline, then the rest of IOPrompter.Prompt
ReadPassword ==
    /\ ioPc = "password"
    /\ \/ \E line \in PasswordLines :
             /\ input' = line
             /\ ret' = [val |-> PromptReturn(line, def), err |-> NoError]
       \/ \E e \in ReadErrors :
             /\ input' = input
             /\ ret' = [val |-> <<>>, err |-> Notef(e, "cannot read input")]
    /\ outBuf' = Append(outBuf, LF)
    /\ ioPc' = "done"
    /\ UNCHANGED <<nonIOVars, env, ioAttr, inTerminal, outFails, def, reads>>

\* the titles handed to IOPrompter.ShowTitle
IOTitles == {<<"T">>, <<>>}

\* the error of the writer dropped
ShowTitleErrorNone(e) == NoError

\* return errgo.Notef(err, "cannot show title")
ShowTitleError(e) == Notef(e, "cannot show title")

\* IOPrompter.ShowTitle(title): fmt.Fprintln(p.Out, title)
ShowTitle ==
    /\ ioPc = "start"
    /\ \E title \in IOTitles :
          IF outFails
              THEN /\ outBuf' = outBuf
                   /\ ret' = [val |-> <<>>, err |-> ShowTitleError(TestFailure)]
              ELSE /\ outBuf' = outBuf \o title \o <<LF>>
                   /\ ret' = [val |-> <<>>, err |-> NoError]
    /\ ioPc' = "shown"
    /\ UNCHANGED <<nonIOVars, env, ioAttr, inTerminal, outFails, def, reads, input>>

InitIO ==
    /\ IdleFill
    /\ IdleSchema
    /\ IdleHistory
    /\ IdleAttrs
    /\ env \in [EnvNames -> EnvValues]
    /\ ioAttr \in IOAttrs
    /\ inTerminal \in BOOLEAN
    /\ outFails \in BOOLEAN
    /\ ioPc = "start"
    /\ def = <<>>
    /\ outBuf = <<>>
    /\ reads = <<>>
    /\ input = <<>>
    /\ ret = [val |-> <<>>, err |-> NoError]

NextIO ==
    \/ ShowTitle
    \/ PromptWrite
    \/ Read
    \/ ReadPassword

SpecIO == InitIO /\ [][NextIO]_vars

\* IOPrompter.Prompt has computed its default
DefaultResolved == ioPc \in {"read", "password", "done"}

\* C12: the default DefaultFromEnv resolves is the value of EnvVar when EnvVar
\* is set and its environment value is non-empty; otherwise the value of the
\* first entry of EnvVars, in list order, whose environment value is
\* non-empty; otherwise the empty string.
C12_EnvVarPrecedence ==
    DefaultResolved =>
        IF ioAttr.EnvVar # "" /\ env[ioAttr.EnvVar] # <<>>
            THEN def = env[ioAttr.EnvVar]
        ELSE IF \E j \in 1..Len(ioAttr.EnvVars) : env[ioAttr.EnvVars[j]] # <<>>
            THEN \E j \in 1..Len(ioAttr.EnvVars) :
                    /\ env[ioAttr.EnvVars[j]] # <<>>
                    /\ \A h \in 1..(j - 1) : env[ioAttr.EnvVars[h]] = <<>>
                    /\ def = env[ioAttr.EnvVars[j]]
        ELSE def = <<>>

\* EnvVar and an entry of EnvVars both set, to different values: EnvVar wins
C12_Witness ==
    /\ DefaultResolved
    /\ ioAttr.EnvVar = "A"
    /\ ioAttr.EnvVars = <<"B">>
    /\ env["A"] = <<"1">>
    /\ env["B"] = <<"2", "*">>
    /\ def = <<"1">>

\* the prompt was written to p.Out
PromptWritten == DefaultResolved /\ ~outFails

\* the characters of the prompt format and of the mask
FormatChars == {" ", "(", ")", ":", "*", LF}

\* C13: IOPrompter.Prompt writes the description, then ": " when the default
\* is empty and " (shown): " otherwise, where shown is the default itself for
\* a non-secret attribute and as many '*' as the default is long for a secret
\* one; for a secret attribute what is written after the description holds
\* only the characters of the format and of the mask, and a failing writer
\* receives nothing.
C13_PromptMasksSecret ==
    /\ PromptWritten =>
          /\ Len(outBuf) >= Len(ioAttr.Description)
          /\ SubSeq(outBuf, 1, Len(ioAttr.Description)) = ioAttr.Description
          /\ LET rest == SubSeq(outBuf, Len(ioAttr.Description) + 1, Len(outBuf))
                 stars == [j \in 1..Len(def) |-> "*"]
                 tail == IF ioPc = "done" /\ inTerminal /\ ioAttr.Secret
                             THEN <<LF>> ELSE <<>>
             IN /\ def = <<>> => rest = <<":", " ">> \o tail
                /\ (def # <<>> /\ ~ioAttr.Secret) =>
                       rest = <<" ", "(">> \o def \o <<")", ":", " ">> \o tail
                /\ (def # <<>> /\ ioAttr.Secret) =>
                       /\ rest = <<" ", "(">> \o stars \o <<")", ":", " ">> \o tail
                       /\ \A j \in 1..Len(rest) : rest[j] \in FormatChars
    /\ (DefaultResolved /\ outFails) => outBuf = <<>>

\* a secret attribute with the default "1": "A (*): " is written
C13_Witness ==
    /\ PromptWritten
    /\ ioAttr.Secret
    /\ def = <<"1">>
    /\ outBuf = <<"A", " ", "(", "*", ")", ":", " ">>

\* the bytes the calls of r.Read delivered before the last call
BytesBefore == [j \in 1..(Len(reads) - 1) |-> reads[j].b]

\* the last call of r.Read delivered the newline
NewlineRead ==
    /\ reads # <<>>
    /\ reads[Len(reads)].n = 1
    /\ reads[Len(reads)].b = LF

\* C14: IOPrompter.Prompt returns the resolved default (possibly the empty
\* string) when the line read is empty, and the line itself, whatever the
\* default, when the line is not empty; the line is what was read before the
\* newline, less one trailing carriage return.
C14_EmptyLineYieldsDefault ==
    (ioPc = "done" /\ ret.err = NoError) =>
        /\ NewlineRead =>
              input = IF BytesBefore # <<>> /\ BytesBefore[Len(BytesBefore)] = CR
                          THEN SubSeq(BytesBefore, 1, Len(BytesBefore) - 1)
                          ELSE BytesBefore
        /\ input = <<>> => ret.val = def
        /\ input # <<>> => ret.val = input

\* an empty line with a non-empty default: the default is returned
C14_Witness ==
    /\ ioPc = "done"
    /\ ret.err = NoError
    /\ Len(reads) = 1
    /\ NewlineRead
    /\ def = <<"2", "*">>
    /\ ret.val = <<"2", "*">>

\* the last call of r.Read reported the end of the input and no newline
EndBeforeNewline ==
    /\ reads # <<>>
    /\ reads[Len(reads)].err = EOF
    /\ ~NewlineRead

----------------------------------------------------------------------------
(* Fields.ValidationSchema and the checkers it builds (fields.go).         *)
(* fields.go is held in two revisions: the earlier one has Attr.Default    *)
(* and no Tattrs, the later one has Tattrs and no Attr.Default.            *)
(* A checker is a record [base, enum, vals]: the checker registered for    *)
(* type base, wrapped in oneOfValuesC with the coerced candidates vals     *)
(* when enum holds. A call that may panic returns [status, val, err] with  *)
(* status "ok", "error" or "panic".                                        *)

Revisions == {"default", "attrs"}

\* longest attr.Values
MaxValues == 2

\* a map[string]string, named by its entries
MapV(entries) == [kind |-> "map", v |-> entries]

\* schema.Omit
Omit == [kind |-> "omit", v |-> ""]

\* the candidates an attr.Values holds
Candidates == {StringV("1"), IntV("1"), StringV("a=b"), NilV}

\* the values handed to the Coerce of a returned checker
RawValues == {StringV("1"), IntV("1"), StringV("3"), StringV("a=b"), NilV}

\* the values an Attr.Default holds; nil is no default
DefaultValues == {NilV, StringV("1"), IntV("1")}

\* attr.Values: nil, or a slice
NilValues == [isNil |-> TRUE, list |-> <<>>]

ValuesOf(list) == [isNil |-> FALSE, list |-> list]

AttrValues == {NilValues} \cup {ValuesOf(l) : l \in SeqUpTo(Candidates, MaxValues)}

\* the fields of Attr that ValidationSchema reads
SchemaAttrs ==
    [Type : FieldTypes, Mandatory : BOOLEAN, Values : AttrValues,
     Default : DefaultValues]

\* a plain attribute: no values, no default
PlainAttrs ==
    {a \in SchemaAttrs :
        a.Type \in {Tstring, Tunknown} /\ a.Values = NilValues /\ a.Default = NilV}

\* the Fields values compiled: "a1" with any attribute, "b1" with a plain one
SchemaForms ==
    {EmptyMap}
        \cup {[n \in {"a1"} |-> a] : a \in SchemaAttrs}
        \cup {[n \in {"b1"} |-> b] : b \in PlainAttrs}
        \cup {[n \in Names |-> IF n = "a1" THEN a ELSE b] :
                 a \in SchemaAttrs, b \in PlainAttrs}

\* every type taken as registered
RegisteredAll(r, type) == TRUE

\* schema.Bool() missing from checkers
RegisteredNoBool(r, type) ==
    type \in (IF r = "attrs" THEN {Tstring, Tint, Tattrs} ELSE {Tstring, Tint})

\* checkers[type] != nil
Registered(r, type) ==
    type \in (IF r = "attrs" THEN {Tstring, Tbool, Tint, Tattrs}
                             ELSE {Tstring, Tbool, Tint})

\* pathPrefix(path), for a path that is nil or one name
pathPrefix(path) == path

\* the "got ..." of an error of package schema
Got(val) == IF val.kind = "nil" THEN <<"got nothing">> ELSE <<"got", val.kind, val.v>>

\* the error of package schema: "<path>: expected <what>, got <type>(<value>)"
Expected(what, val, path) == pathPrefix(path) \o <<what>> \o Got(val)

\* strings.Fields(s) for the strings used here
StringsFields(str) == IF str = "" THEN <<>> ELSE <<str>>

\* keyvalues.Parse(tokens, true) for at most one token: a token with no "="
\* is an error
keyvaluesParse(tokens) ==
    IF tokens = <<>> THEN [status |-> "ok", val |-> MapV(""), err |-> NoError]
    ELSE IF tokens[1] \in {"a=b"}
        THEN [status |-> "ok", val |-> MapV(tokens[1]), err |-> NoError]
    ELSE [status |-> "error", val |-> NilV,
          err |-> <<"expected \"key=value\"", "got", tokens[1]>>]

\* attrsC.Coerce on nil, a string, or a value of another basic kind:
\* reflect.TypeOf(nil) is nil, and its Kind() panics
attrsCoerce(val, path) ==
    CASE val.kind = "nil" -> [status |-> "panic", val |-> NilV, err |-> NoError]
      [] val.kind = "string" ->
            LET parsed == keyvaluesParse(StringsFields(val.v))
            IN  IF parsed.status = "ok"
                    THEN parsed
                    ELSE [parsed EXCEPT !.err = pathPrefix(path) \o parsed.err]
      [] OTHER ->
            [status |-> "error", val |-> NilV,
             err |-> pathPrefix(path) \o <<"unexpected type for value">> \o Got(val)]

\* schema.ForceInt().Coerce: an integer as int, a string parsed
ForceInt(val) ==
    CASE val.kind = "int" -> [ok |-> TRUE, val |-> val]
      [] val.kind = "string" -> ParseInt(val.v)
      [] OTHER -> [ok |-> FALSE, val |-> NilV]

\* a result of package schema as [status, val, err]
Outcome(coerced, what, val, path) ==
    IF coerced.ok
        THEN [status |-> "ok", val |-> coerced.val, err |-> NoError]
        ELSE [status |-> "error", val |-> NilV, err |-> Expected(what, val, path)]

\* checkers[type].Coerce(val, path); a nil checker panics
BaseCoerce(type, val, path) ==
    CASE type = Tstring -> Outcome(CoerceString(val), "expected string", val, path)
      [] type = Tbool -> Outcome(CoerceBool(val), "expected bool", val, path)
      [] type = Tint -> Outcome(ForceInt(val), "expected number", val, path)
      [] type = Tattrs -> attrsCoerce(val, path)
      [] OTHER -> [status |-> "panic", val |-> NilV, err |-> NoError]

\* allow == v on two interface values: a panic when both hold a map
RECURSIVE ScanVals(_, _, _, _)
ScanVals(vals, val, path, all) ==
    IF vals = <<>>
        THEN [status |-> "error", val |-> NilV,
              err |-> pathPrefix(path) \o <<"expected one of">>
                          \o [j \in 1..Len(all) |-> all[j].v] \o <<"got", val.v>>]
    ELSE IF Head(vals).kind = "map" /\ val.kind = "map"
        THEN [status |-> "panic", val |-> NilV, err |-> NoError]
    ELSE IF Head(vals) = val
        THEN [status |-> "ok", val |-> val, err |-> NoError]
    ELSE ScanVals(Tail(vals), val, path, all)

\* oneOfValuesC.Coerce
oneOfValuesCoerce(checker, val, path) ==
    LET r == BaseCoerce(checker.base, val, path)
    IN  IF r.status # "ok" THEN r ELSE ScanVals(checker.vals, r.val, path, checker.vals)

\* the enumeration left aside: the checker of the type alone
CheckerCoerceBase(checker, val, path) == BaseCoerce(checker.base, val, path)

\* checker.Coerce(val, path) for a checker built by ValidationSchema
CheckerCoerce(checker, val, path) ==
    IF checker.enum
        THEN oneOfValuesCoerce(checker, val, path)
        ELSE BaseCoerce(checker.base, val, path)

\* the loop of oneOfValues: [status, vals, err]
RECURSIVE CoerceCandidates(_, _, _, _)
CoerceCandidates(type, list, path, done) ==
    IF list = <<>> THEN [status |-> "ok", vals |-> done, err |-> NoError]
    ELSE LET r == BaseCoerce(type, Head(list), <<>>)
         IN  CASE r.status = "panic" -> [status |-> "panic", vals |-> <<>>, err |-> NoError]
               [] r.status = "error" ->
                     [status |-> "error", vals |-> <<>>,
                      err |-> pathPrefix(path) \o <<"invalid enumerated value">> \o r.err]
               [] OTHER -> CoerceCandidates(type, Tail(list), path, Append(done, r.val))

\* oneOfValues(checker, values, path): [status, checker, err]
oneOfValues(type, list, path) ==
    LET r == CoerceCandidates(type, list, path, <<>>)
    IN  [status |-> r.status,
         checker |-> [base |-> type, enum |-> TRUE, vals |-> r.vals],
         err |-> r.err]

\* attr.Values != nil
Wraps(attr) == ~attr.Values.isNil

\* every attribute may be left out
OmitAlways(attr) == TRUE

\* !attr.Mandatory
OmitAllowed(attr) == ~attr.Mandatory

\* the default of a mandatory attribute left aside
HasDefaultOptional(r, attr) == r = "default" /\ attr.Default # NilV /\ ~attr.Mandatory

\* the revision has Attr.Default and the attribute declares one
HasDefault(r, attr) == r = "default" /\ attr.Default # NilV

\* the candidates coerced in place, in the slice the caller's attribute holds
ValuesCoercedInPlace(attr, checker) ==
    IF checker.enum THEN [isNil |-> FALSE, list |-> checker.vals] ELSE attr.Values

\* what the caller's attr.Values holds after the loop body: oneOfValues
\* writes the coerced candidates to vals, a slice of its own
\* (vals := make([]interface{}, len(values))), and reads values only
ValuesLeft(attr, checker) == attr.Values

\* the body of the range loop of ValidationSchema for one attribute:
\* [status, checker, sets, default, err], sets telling whether defaults[name]
\* is assigned
RangeBody(r, name, attr) ==
    LET path == <<name>>
        plain == [base |-> attr.Type, enum |-> FALSE, vals |-> <<>>]
        wrapped == IF Wraps(attr)
                       THEN oneOfValues(attr.Type, attr.Values.list, path)
                       ELSE [status |-> "ok", checker |-> plain, err |-> NoError]
        dflt == CheckerCoerce(wrapped.checker, attr.Default, <<>>)
        out == [status |-> "ok", checker |-> wrapped.checker, sets |-> FALSE,
                default |-> NilV, err |-> NoError]
    IN  IF ~Registered(r, attr.Type)
            THEN [out EXCEPT !.status = "error", !.checker = plain,
                             !.err = pathPrefix(path) \o <<"invalid type", attr.Type>>]
        ELSE IF wrapped.status # "ok"
            THEN [out EXCEPT !.status = wrapped.status, !.checker = plain,
                             !.err = wrapped.err]
        ELSE IF ~HasDefault(r, attr)
            THEN [out EXCEPT !.sets = OmitAllowed(attr), !.default = Omit]
        ELSE IF dflt.status = "ok"
            THEN [out EXCEPT !.sets = TRUE, !.default = dflt.val]
        ELSE IF dflt.status = "panic"
            THEN [out EXCEPT !.status = "panic"]
        ELSE [out EXCEPT !.status = "error",
                         !.err = pathPrefix(path) \o <<"invalid default value">>
                                     \o dflt.err]

\* one iteration of "for name, attr := range s", the order being any
ValidationSchemaRange ==
    /\ spc = "range"
    /\ \E name \in DOMAIN sFields \ visited :
          LET body == RangeBody(rev, name, sFields[name])
          IN  /\ visited' = visited \cup {name}
              /\ CASE body.status = "ok" ->
                        /\ fields' = MapPut(fields, name, body.checker)
                        /\ defaults' = IF body.sets
                                           THEN MapPut(defaults, name, body.default)
                                           ELSE defaults
                        /\ UNCHANGED <<spc, sret>>
                   [] body.status = "error" ->
                        /\ sret' = [fields |-> NilMap, defaults |-> NilMap,
                                    err |-> body.err]
                        /\ spc' = "returned"
                        /\ UNCHANGED <<fields, defaults>>
                   [] OTHER ->
                        /\ spc' = "panicked"
                        /\ UNCHANGED <<fields, defaults, sret>>
              /\ sFields' = [sFields EXCEPT
                                ![name].Values = ValuesLeft(sFields[name], body.checker)]
    /\ UNCHANGED <<nonSchemaVars, rev, coerceIn, coerceOut>>

\* return fields, defaults, nil
ValidationSchemaReturn ==
    /\ spc = "range"
    /\ visited = DOMAIN sFields
    /\ sret' = [fields |-> [isNil |-> FALSE, m |-> fields],
                defaults |-> [isNil |-> FALSE, m |-> defaults],
                err |-> NoError]
    /\ spc' = "returned"
    /\ UNCHANGED <<nonSchemaVars, rev, sFields, visited, fields, defaults,
                   coerceIn, coerceOut>>

\* Coerce(raw, path) on the checker returned for one field, as
\* schema.FieldMap calls it with the field's name as the path
Coerce ==
    /\ spc = "returned"
    /\ sret.err = NoError
    /\ \E name \in DOMAIN sret.fields.m, raw \in RawValues :
          /\ coerceIn' = [name |-> name, raw |-> raw]
          /\ coerceOut' = CheckerCoerce(sret.fields.m[name], raw, <<name>>)
    /\ UNCHANGED <<nonSchemaVars, rev, sFields, spc, visited, fields, defaults, sret>>

\* the earlier revision knows no Tattrs; the later one has no Attr.Default
InitSchema ==
    /\ IdleFill
    /\ IdleIO
    /\ IdleHistory
    /\ IdleAttrs
    /\ rev \in Revisions
    /\ sFields \in SchemaForms
    /\ rev = "attrs" => \A n \in DOMAIN sFields : sFields[n].Default = NilV
    /\ spc = "range"
    /\ visited = {}
    /\ fields = EmptyMap
    /\ defaults = EmptyMap
    /\ sret = [fields |-> NilMap, defaults |-> NilMap, err |-> NoError]
    /\ coerceIn = [name |-> "", raw |-> NilV]
    /\ coerceOut = NoCoerce

NextSchema ==
    \/ ValidationSchemaRange
    \/ ValidationSchemaReturn
    \/ Coerce

SpecSchema == InitSchema /\ [][NextSchema]_vars

\* ValidationSchema returned an error
CompileFailed == spc = "returned" /\ sret.err # NoError

\* ValidationSchema returned without an error
Compiled == spc = "returned" /\ sret.err = NoError

\* the types registered in the revision of fields.go at hand
RegisteredTypes ==
    IF rev = "attrs" THEN {Tstring, Tbool, Tint, Tattrs} ELSE {Tstring, Tbool, Tint}

\* C16: ValidationSchema never succeeds on a Fields value holding an
\* attribute whose type is not registered; an error comes with a nil
\* validator set and a nil defaults set; the error names the attribute the
\* loop stopped at, every attribute visited before it was compiled, none was
\* visited after it, and the error is <name>: invalid type "<type>" exactly
\* when the type of that attribute is not registered.
C16_InvalidTypeFails ==
    /\ (spc = "returned" /\ \E n \in DOMAIN sFields : sFields[n].Type \notin RegisteredTypes)
          => sret.err # NoError
    /\ CompileFailed =>
          /\ sret.fields = NilMap
          /\ sret.defaults = NilMap
          /\ sret.err[1] \in visited
          /\ DOMAIN fields = visited \ {sret.err[1]}
          /\ \A n \in visited :
                sFields[n].Type \notin RegisteredTypes => n = sret.err[1]
          /\ (sFields[sret.err[1]].Type \notin RegisteredTypes)
                <=> (sret.err = <<sret.err[1], "invalid type", sFields[sret.err[1]].Type>>)

\* two attributes of unregistered types: the error names the one visited,
\* and the other one was never visited
C16_Witness ==
    /\ CompileFailed
    /\ DOMAIN sFields = {"a1", "b1"}
    /\ sFields["a1"].Type = Tunknown
    /\ sFields["b1"].Type = Tunknown
    /\ visited = {"b1"}
    /\ sret.err = <<"b1", "invalid type", Tunknown>>

\* the attribute has a registered type, no values and no default
PlainRegistered(attr) ==
    /\ attr.Type \in RegisteredTypes
    /\ attr.Values.isNil
    /\ attr.Default = NilV

\* C17: on a Fields value whose attributes all have a registered type, no
\* values and no default, ValidationSchema does not panic, returns no error,
\* and returns a validator set whose keys are the keys of the Fields value,
\* each validator being the plain checker of the attribute's type.
C17_OneValidatorPerField ==
    (\A n \in DOMAIN sFields : PlainRegistered(sFields[n])) =>
        /\ spc # "panicked"
        /\ spc = "returned" =>
              /\ sret.err = NoError
              /\ ~sret.fields.isNil
              /\ DOMAIN sret.fields.m = DOMAIN sFields
              /\ \A n \in DOMAIN sFields :
                    sret.fields.m[n] =
                        [base |-> sFields[n].Type, enum |-> FALSE, vals |-> <<>>]

\* a bool attribute and a string attribute, compiled
C17_Witness ==
    /\ Compiled
    /\ DOMAIN sFields = {"a1", "b1"}
    /\ PlainRegistered(sFields["a1"])
    /\ PlainRegistered(sFields["b1"])
    /\ sFields["a1"].Type = Tbool
    /\ DOMAIN sret.fields.m = {"a1", "b1"}

\* C18: after a successful ValidationSchema, for every attribute without a
\* declared default the defaults set maps the name to Omit if and only if the
\* attribute is not mandatory; the name of a mandatory attribute without a
\* default is not in the defaults set at all.
C18_OmitIffNotMandatory ==
    Compiled =>
        \A n \in DOMAIN sFields :
            sFields[n].Default = NilV =>
                /\ ~sFields[n].Mandatory =>
                      (n \in DOMAIN sret.defaults.m /\ sret.defaults.m[n] = Omit)
                /\ sFields[n].Mandatory => n \notin DOMAIN sret.defaults.m

\* a mandatory and an optional attribute, compiled in the earlier revision
C18_Witness ==
    /\ Compiled
    /\ rev = "default"
    /\ DOMAIN sFields = {"a1", "b1"}
    /\ sFields["a1"].Mandatory
    /\ sFields["a1"].Default = NilV
    /\ ~sFields["b1"].Mandatory
    /\ DOMAIN sret.defaults.m = {"b1"}
    /\ sret.defaults.m["b1"] = Omit

\* a Coerce call on a returned enumeration checker was made
EnumCoerced ==
    /\ Compiled
    /\ coerceOut.status # "none"
    /\ sret.fields.m[coerceIn.name].enum

\* C19: the enumeration checker's Coerce applies the wrapped checker; if
\* that fails its error is returned; if it succeeds, the coerced value is
\* returned when it equals one of the coerced candidates, and otherwise
\* Coerce fails with "expected one of <candidates>, got <value>".
C19_EnumCoerce ==
    EnumCoerced =>
        LET checker == sret.fields.m[coerceIn.name]
            inner == BaseCoerce(checker.base, coerceIn.raw, <<coerceIn.name>>)
        IN  /\ inner.status \in {"ok", "error"}
            /\ inner.status = "error" => coerceOut = inner
            /\ inner.status = "ok" =>
                  IF \E j \in 1..Len(checker.vals) : checker.vals[j] = inner.val
                      THEN coerceOut = [status |-> "ok", val |-> inner.val, err |-> NoError]
                      ELSE /\ coerceOut.status = "error"
                           /\ coerceOut.err =
                                 <<coerceIn.name, "expected one of">>
                                     \o [j \in 1..Len(checker.vals) |-> checker.vals[j].v]
                                     \o <<"got", inner.val.v>>

\* ValidationSchema is over: it returned or it panicked
CompileOver == spc \in {"returned", "panicked"}

\* the candidates of attr that the checker of its type does not coerce
BadCandidates(attr) ==
    {j \in 1..Len(attr.Values.list) :
        BaseCoerce(attr.Type, attr.Values.list[j], <<>>).status # "ok"}

\* C20: when a candidate of a visited attribute of a registered type cannot
\* be coerced by the checker of that type, at any position of values,
\* ValidationSchema returns the error
\* <name>: invalid enumerated value: <reason>, the reason being the error of
\* the first such candidate.
C20_InvalidEnumValue ==
    \A n \in visited :
        (/\ CompileOver
         /\ sFields[n].Type \in RegisteredTypes
         /\ BadCandidates(sFields[n]) # {}) =>
            /\ spc = "returned"
            /\ \E j \in BadCandidates(sFields[n]) :
                  /\ \A h \in BadCandidates(sFields[n]) : j <= h
                  /\ BaseCoerce(sFields[n].Type, sFields[n].Values.list[j], <<>>).status
                        = "error"
                  /\ sret.err = <<n, "invalid enumerated value">>
                        \o BaseCoerce(sFields[n].Type, sFields[n].Values.list[j], <<>>).err

\* the attribute reached the default step of the earlier revision: its type
\* is registered, its candidates all coerce, and it declares a default
DefaultReached(n) ==
    /\ CompileOver
    /\ rev = "default"
    /\ n \in visited
    /\ sFields[n].Type \in RegisteredTypes
    /\ BadCandidates(sFields[n]) = {}
    /\ sFields[n].Default # NilV

\* the default of attribute n as the checker of its type coerces it
TypedDefault(n) == BaseCoerce(sFields[n].Type, sFields[n].Default, <<>>)

\* the candidates of attribute n as the checker of its type coerces them
CoercedCandidates(n) ==
    [j \in 1..Len(sFields[n].Values.list) |->
        BaseCoerce(sFields[n].Type, sFields[n].Values.list[j], <<>>).val]

\* ValidationSchema stopped at attribute n with an error
FailedAt(n) == CompileFailed /\ sret.err[1] = n

\* C21, as claimed: ValidationSchema fails with
\* <name>: invalid default value: <reason> for every attribute whose default
\* does not satisfy the coercion of the attribute's type, and otherwise
\* records the coerced default as the field's default.
C21_DefaultTypeOnly ==
    \A n \in DOMAIN sFields :
        DefaultReached(n) =>
            /\ TypedDefault(n).status = "error" =>
                  /\ FailedAt(n)
                  /\ sret.err = <<n, "invalid default value">> \o TypedDefault(n).err
            /\ TypedDefault(n).status = "ok" =>
                  /\ ~FailedAt(n)
                  /\ n \in DOMAIN defaults
                  /\ defaults[n] = TypedDefault(n).val

\* the coerced default of attribute n is one of its coerced candidates, or
\* the attribute has no values
DefaultAllowed(n) ==
    \/ sFields[n].Values.isNil
    \/ \E j \in 1..Len(sFields[n].Values.list) :
          CoercedCandidates(n)[j] = TypedDefault(n).val

\* C21, amended: ValidationSchema fails with
\* <name>: invalid default value: <reason> for every attribute whose default
\* its checker rejects: the coercion of the type and, when values is set,
\* membership in the coerced values; otherwise it records the coerced
\* default as the field's default, also when the attribute is mandatory.
C21_DefaultChecked ==
    \A n \in DOMAIN sFields :
        DefaultReached(n) =>
            /\ TypedDefault(n).status = "error" =>
                  /\ FailedAt(n)
                  /\ sret.err = <<n, "invalid default value">> \o TypedDefault(n).err
            /\ (TypedDefault(n).status = "ok" /\ ~DefaultAllowed(n)) =>
                  /\ FailedAt(n)
                  /\ sret.err = <<n, "invalid default value", "expected one of">>
                        \o [j \in 1..Len(CoercedCandidates(n)) |-> CoercedCandidates(n)[j].v]
                        \o <<"got", TypedDefault(n).val.v>>
            /\ (TypedDefault(n).status = "ok" /\ DefaultAllowed(n)) =>
                  /\ ~FailedAt(n)
                  /\ n \in DOMAIN defaults
                  /\ defaults[n] = TypedDefault(n).val
                  /\ Compiled => sret.defaults.m[n] = TypedDefault(n).val

\* a mandatory int attribute with the default "1": the default recorded is
\* the integer 1
C21_Witness ==
    /\ Compiled
    /\ rev = "default"
    /\ "a1" \in DOMAIN sFields
    /\ sFields["a1"].Type = Tint
    /\ sFields["a1"].Mandatory
    /\ sFields["a1"].Default = StringV("1")
    /\ sret.defaults.m["a1"] = IntV("1")

\* attribute n declares values and a default, and the default coerces under
\* the type of the attribute
ValuesAndDefault(n) ==
    /\ DefaultReached(n)
    /\ ~sFields[n].Values.isNil
    /\ TypedDefault(n).status = "ok"

\* C26, as claimed: a default that coerces under the attribute's type does
\* not make ValidationSchema fail, whether or not it is a member of values.
C26_DefaultTypeCheckedOnly ==
    \A n \in DOMAIN sFields : ValuesAndDefault(n) => ~FailedAt(n)

\* C26, amended: when an attribute declares both values and a default, the
\* default goes through the enumeration checker: ValidationSchema fails at
\* the attribute, with an "invalid default value: expected one of" error,
\* exactly when the coerced default is not one of the coerced values.
C26_DefaultMustBeMember ==
    \A n \in DOMAIN sFields :
        ValuesAndDefault(n) =>
            /\ FailedAt(n) <=>
                  ~(\E j \in 1..Len(CoercedCandidates(n)) :
                        CoercedCandidates(n)[j] = TypedDefault(n).val)
            /\ FailedAt(n) =>
                  /\ Len(sret.err) >= 3
                  /\ sret.err[2] = "invalid default value"
                  /\ sret.err[3] = "expected one of"

\* a string attribute with the values ["a=b"] and the default "1", which is
\* a string and not one of the values: ValidationSchema fails
C26_Witness ==
    /\ FailedAt("a1")
    /\ rev = "default"
    /\ sFields["a1"].Type = Tstring
    /\ sFields["a1"].Values = ValuesOf(<<StringV("a=b")>>)
    /\ sFields["a1"].Default = StringV("1")
    /\ sret.err = <<"a1", "invalid default value", "expected one of", "a=b", "got", "1">>

\* a Coerce call on a returned checker was made
Coerced1 == Compiled /\ coerceOut.status # "none"

\* the shapes attrsC.Coerce accepts
AttrsShapes == {"string", "slice", "map"}

\* C25: for every raw value that is not a string, a sequence or a map, nil
\* included, the Coerce of the attrs checker returns the error
\* <name>: unexpected type for value, got <type>(<value>); it does not
\* panic.
C25_OtherShapesAreTypeErrors ==
    (/\ Coerced1
     /\ sret.fields.m[coerceIn.name].base = Tattrs
     /\ coerceIn.raw.kind \notin AttrsShapes) =>
        /\ coerceOut.status = "error"
        /\ Len(coerceOut.err) >= 2
        /\ coerceOut.err[1] = coerceIn.name
        /\ coerceOut.err[2] = "unexpected type for value"

\* C27: an attribute whose values is present but empty gets the plain
\* checker of its type, not an enumeration, and a Coerce on it does what the
\* plain checker does, so it accepts every value of the type.
C27_EmptyValuesNotWrapped ==
    /\ Compiled =>
          \A n \in DOMAIN sFields :
              sFields[n].Values = ValuesOf(<<>>) => ~sret.fields.m[n].enum
    /\ (Coerced1 /\ sFields[coerceIn.name].Values = ValuesOf(<<>>)) =>
          coerceOut = BaseCoerce(sFields[coerceIn.name].Type, coerceIn.raw,
                                 <<coerceIn.name>>)

\* C28: readLine strips exactly one trailing carriage return from the line
\* it read: the line returned is what was read before the newline, less its
\* last byte when that byte is a carriage return; every other carriage
\* return is kept, and a line that is empty after that makes Prompt return
\* the default.
C28_OneCarriageReturnStripped ==
    (ioPc = "done" /\ ret.err = NoError /\ NewlineRead) =>
        /\ IF BytesBefore # <<>> /\ BytesBefore[Len(BytesBefore)] = CR
              THEN Append(input, CR) = BytesBefore
              ELSE input = BytesBefore
        /\ input # <<>> => ret.val = input
        /\ input = <<>> => ret.val = def

\* "B\r\r\n" was read: the line is "B\r"
C28_Witness ==
    /\ ioPc = "done"
    /\ ret.err = NoError
    /\ Len(reads) = 4
    /\ BytesBefore = <<"B", CR, CR>>
    /\ NewlineRead
    /\ input = <<"B", CR>>
    /\ ret.val = <<"B", CR>>

\* C29: when the write of the prompt fails, IOPrompter.Prompt returns
\* "cannot write prompt: <error>" and the empty string, and nothing is read
\* from In, neither before nor after; when the write of the title fails,
\* ShowTitle returns "cannot show title: <error>", and it returns no error
\* when the write succeeds.
C29_WriteErrors ==
    /\ outFails => ioPc \notin {"read", "password"}
    /\ (ioPc = "done" /\ outFails) =>
          /\ ret = [val |-> <<>>, err |-> <<"cannot write prompt", "test">>]
          /\ reads = <<>>
          /\ input = <<>>
          /\ outBuf = <<>>
    /\ (ioPc = "shown" /\ outFails) =>
          /\ ret.err = <<"cannot show title", "test">>
          /\ outBuf = <<>>
    /\ (ioPc = "shown" /\ ~outFails) =>
          /\ ret.err = NoError
          /\ outBuf # <<>>
          /\ outBuf[Len(outBuf)] = LF

\* the write of the prompt failed for an attribute with a default
C29_Witness ==
    /\ ioPc = "done"
    /\ outFails
    /\ def # <<>>
    /\ ret.err = <<"cannot write prompt", "test">>
    /\ reads = <<>>

\* C30: within one Fill the Prompt calls for a field are contiguous: between
\* two Prompt calls for the same field every call is a Prompt call for that
\* field, and once a response for a field was accepted the field is never
\* prompted again.
C30_PromptRunsContiguous ==
    \A p, q \in 1..Len(calls) :
        (/\ p < q
         /\ calls[p].op = "Prompt"
         /\ calls[q].op = "Prompt"
         /\ calls[p].name = calls[q].name) =>
            /\ \A r \in p..q :
                  calls[r].op = "Prompt" /\ calls[r].name = calls[p].name
            /\ ~Accepted(Fields[calls[p].name], calls[p])

\* a field prompted twice, its second response accepted, then the other
\* field prompted
C30_Witness ==
    /\ Len(calls) = 3
    /\ calls[1].op = "Prompt"
    /\ Rejected(Fields[calls[1].name], calls[1])
    /\ calls[2].op = "Prompt"
    /\ calls[2].name = calls[1].name
    /\ Accepted(Fields[calls[2].name], calls[2])
    /\ calls[3].op = "Prompt"
    /\ calls[3].name # calls[1].name

\* ValidationSchema called once more on the same Fields value, what the
\* first call did being remembered
Recompile ==
    /\ CompileOver
    /\ ~prevCompile.set
    /\ prevCompile' = [set |-> TRUE, spc |-> spc, sret |-> sret]
    /\ spc' = "range"
    /\ visited' = {}
    /\ fields' = EmptyMap
    /\ defaults' = EmptyMap
    /\ sret' = [fields |-> NilMap, defaults |-> NilMap, err |-> NoError]
    /\ coerceIn' = [name |-> "", raw |-> NilV]
    /\ coerceOut' = NoCoerce
    /\ UNCHANGED <<fillVars, ioVars, attrsVars, prevRun, rev, sFields>>

NextRecompile ==
    \/ ValidationSchemaRange
    \/ ValidationSchemaReturn
    \/ Recompile

SpecRecompile == InitSchema /\ [][NextRecompile]_vars

\* C22: compiling the same Fields value twice ends the same way and returns
\* the same validator set, the same defaults set and the same error, also
\* when more than one attribute of the Fields value is invalid.
C22_CompileDeterministic ==
    (prevCompile.set /\ CompileOver) =>
        /\ spc = prevCompile.spc
        /\ sret = prevCompile.sret

-----------------------------------------------------------------------------
(* attrsC.Coerce on the three shapes of its input, strings being sequences *)
(* of one-character strings.                                               *)

\* more tokens than this are not tried
MaxTokens == 2

\* unicode.IsSpace, for the characters the tokens are made of
Whitespace == {" "}

\* the tokens a list draws from: empty, key=value, key=, a bare key, a key
\* followed by a space, an empty key, a second key
Tokens == {<<>>, <<"x", "=", "y">>, <<"x", "=">>, <<"z">>,
           <<"x", " ", "=", "y">>, <<"=", "y">>, <<"z", "=", "y">>}

\* the values of a map input: strings, and an int
EntryValues == {[kind |-> "string", chars |-> <<"y">>],
                [kind |-> "string", chars |-> <<>>],
                [kind |-> "int", chars |-> <<"1">>]}

\* the keys of a map input
EntryKeys == {<<"x">>, <<>>}

AttrsMaps == UNION {[S -> EntryValues] : S \in SUBSET EntryKeys}

\* the tokens written one after the other with a space between them
RECURSIVE Join(_)
Join(list) ==
    IF list = <<>> THEN <<>>
    ELSE IF Len(list) = 1 THEN list[1]
    ELSE list[1] \o <<" ">> \o Join(Tail(list))

\* strings.Fields from character j on: cur is the field under way, acc the
\* fields found
RECURSIVE FieldsFrom(_, _, _, _)
FieldsFrom(s, j, cur, acc) ==
    LET closed == IF cur = <<>> THEN acc ELSE Append(acc, cur)
    IN  IF j > Len(s) THEN closed
        ELSE IF s[j] \in Whitespace THEN FieldsFrom(s, j + 1, <<>>, closed)
        ELSE FieldsFrom(s, j + 1, Append(cur, s[j]), acc)

\* a wrong strings.Fields: the string is never split
SplitFieldsWhole(s) == <<s>>

\* strings.Fields: the maximal runs of characters that are not white space
SplitFields(s) == FieldsFrom(s, 1, <<>>, <<>>)

\* strings.SplitN(kv, "=", 2)
SplitN2(kv) ==
    LET eqs == {j \in 1..Len(kv) : kv[j] = "="}
    IN  IF eqs = {} THEN <<kv>>
        ELSE LET p == CHOOSE j \in eqs : \A h \in eqs : j <= h
             IN  <<SubSeq(kv, 1, p - 1), SubSeq(kv, p + 1, Len(kv))>>

\* strings.TrimSpace
RECURSIVE TrimSpace(_)
TrimSpace(s) ==
    IF s = <<>> THEN s
    ELSE IF s[1] \in Whitespace THEN TrimSpace(Tail(s))
    ELSE IF s[Len(s)] \in Whitespace THEN TrimSpace(SubSeq(s, 1, Len(s) - 1))
    ELSE s

\* attrsC.Coerce's error for what keyvalues.Parse refused
ParseError(path, msg, arg) ==
    [status |-> "error", m |-> EmptyMap,
     err |-> [prefix |-> pathPrefix(path), msg |-> msg, arg |-> arg]]

\* keyvalues.Parse(src, true) from token j on, results being the map so far
RECURSIVE ParseFrom(_, _, _, _)
ParseFrom(src, j, results, path) ==
    IF j > Len(src) THEN [status |-> "ok", m |-> results, err |-> NoAttrsError]
    ELSE
        LET kv == src[j]
            parts == SplitN2(kv)
        IN  IF Len(parts) # 2 THEN ParseError(path, "expected \"key=value\"", kv)
            ELSE
                LET key == TrimSpace(parts[1])
                    value == TrimSpace(parts[2])
                IN  IF key = <<>>
                        THEN ParseError(path, "expected \"key=value\"", kv)
                    ELSE IF key \in DOMAIN results
                        THEN ParseError(path, "specified more than once", key)
                    ELSE ParseFrom(src, j + 1,
                            [x \in DOMAIN results \cup {key} |->
                                IF x = key THEN value ELSE results[x]], path)

\* keyvalues.Parse(src, true), as attrsC.Coerce returns its result
Parse(src, path) == ParseFrom(src, 1, EmptyMap, path)

\* attrsC.Coerce, case reflect.String
attrsCoerceString(s, path) == Parse(SplitFields(s), path)

\* attrsC.Coerce, case reflect.Slice, on a slice of strings
attrsCoerceSlice(list, path) == Parse(list, path)

\* the path attrsC.Coerce is called with
AttrsPath == <<"a1">>

\* attrsC.Coerce on the string made of the tokens
AttrsCoerceString ==
    /\ outString.status = "none"
    /\ outString' = attrsCoerceString(Join(aTokens), AttrsPath)
    /\ UNCHANGED <<nonAttrsVars, aTokens, aEntries, outSlice, outMap>>

\* attrsC.Coerce on the slice of the tokens
AttrsCoerceSlice ==
    /\ outSlice.status = "none"
    /\ outSlice' = attrsCoerceSlice(aTokens, AttrsPath)
    /\ UNCHANGED <<nonAttrsVars, aTokens, aEntries, outString, outMap>>

\* attrsC.Coerce, case reflect.Map: attrMapChecker refuses the map at an
\* entry that is not a string, whichever it meets first; otherwise the
\* entries are copied
AttrsCoerceMap ==
    /\ outMap.status = "none"
    /\ LET bad == {key \in DOMAIN aEntries : aEntries[key].kind # "string"}
       IN  IF bad = {}
               THEN outMap' = [status |-> "ok",
                               m |-> [key \in DOMAIN aEntries |-> aEntries[key].chars],
                               err |-> NoAttrsError]
               ELSE \E key \in bad :
                       outMap' = [status |-> "error", m |-> EmptyMap,
                                  err |-> [prefix |-> pathPrefix(AttrsPath \o <<key>>),
                                           msg |-> "expected string",
                                           arg |-> aEntries[key].chars]]
    /\ UNCHANGED <<nonAttrsVars, aTokens, aEntries, outString, outSlice>>

InitAttrs ==
    /\ IdleFill
    /\ IdleIO
    /\ IdleSchema
    /\ IdleHistory
    /\ aTokens \in SeqUpTo(Tokens, MaxTokens)
    /\ aEntries \in AttrsMaps
    /\ outString = NoOutcome
    /\ outSlice = NoOutcome
    /\ outMap = NoOutcome

NextAttrs ==
    \/ AttrsCoerceString
    \/ AttrsCoerceSlice
    \/ AttrsCoerceMap

SpecAttrs == InitAttrs /\ [][NextAttrs]_vars

\* the token has no white space in it
NoWhitespace(t) == \A j \in 1..Len(t) : t[j] \notin Whitespace

\* both the string and the slice of the tokens went through attrsC.Coerce
BothParsed == outString.status # "none" /\ outSlice.status # "none"

\* a map of strings went through attrsC.Coerce and comes back entry by entry
MapCopied ==
    (/\ outMap.status # "none"
     /\ \A key \in DOMAIN aEntries : aEntries[key].kind = "string") =>
        /\ outMap.status = "ok"
        /\ DOMAIN outMap.m = DOMAIN aEntries
        /\ \A key \in DOMAIN aEntries : outMap.m[key] = aEntries[key].chars

\* C24 as stated: for every list of tokens none of which holds white space,
\* attrsC.Coerce gives the same result or the same error on the tokens joined
\* with spaces into one string as on the slice of the tokens, and a map of
\* strings comes back with exactly its entries.
C24_ShapesAgreeNoWhitespace ==
    /\ (/\ BothParsed
        /\ \A j \in 1..Len(aTokens) : NoWhitespace(aTokens[j])) =>
            outString = outSlice
    /\ MapCopied

\* C24: for every list of tokens each of which is not empty and holds no
\* white space, attrsC.Coerce gives the same result or the same error on the
\* tokens joined with spaces into one string as on the slice of the tokens,
\* and a map of strings comes back with exactly its entries.
C24_ShapesAgree ==
    /\ (/\ BothParsed
        /\ \A j \in 1..Len(aTokens) :
              aTokens[j] # <<>> /\ NoWhitespace(aTokens[j])) =>
            outString = outSlice
    /\ MapCopied

\* two tokens of different keys were parsed from both shapes into the same
\* two entries, and a map of one entry was copied
C24_Witness ==
    /\ BothParsed
    /\ aTokens = <<<<"x", "=", "y">>, <<"z", "=", "y">>>>
    /\ outString.status = "ok"
    /\ outSlice = outString
    /\ DOMAIN outString.m = {<<"x">>, <<"z">>}
    /\ outMap.status = "ok"
    /\ DOMAIN outMap.m = {<<"x">>}

-----------------------------------------------------------------------------
(* Fill called twice on the same form.                                     *)

\* Fill returned and is called once more on the same form by the same
\* PromptingFiller, the calls the Prompter received being remembered
FillAgain ==
    /\ pc \in {"done", "aborted"}
    /\ ~prevRun.set
    /\ prevRun' = [set |-> TRUE, calls |-> calls]
    /\ pc' = "start"
    /\ fs' = <<>>
    /\ k' = 1
    /\ i' = 0
    /\ values' = EmptyMap
    /\ result' = NilResult
    /\ err' = NoError
    /\ calls' = <<>>
    /\ UNCHANGED <<Title, Fields, MaxTries, ioVars, schemaVars, attrsVars, prevCompile>>

AgainForms == UNION {[S -> OrderAttrs] : S \in SUBSET Names}

InitAgain ==
    /\ Title \in Titles
    /\ Fields \in AgainForms
    /\ MaxTries \in {-1, 1}
    /\ pc = "start"
    /\ fs = <<>>
    /\ k = 1
    /\ i = 0
    /\ values = EmptyMap
    /\ result = NilResult
    /\ err = NoError
    /\ calls = <<>>
    /\ IdleIO
    /\ IdleSchema
    /\ IdleHistory
    /\ IdleAttrs

NextAgain ==
    \/ FillShowTitle
    \/ FillNoTitle
    \/ Prompt
    \/ TooManyInvalid
    \/ FillReturn
    \/ FillAgain

SpecAgain == InitAgain /\ [][NextAgain]_vars

\* a sequence without the elements that repeat the one before them
RECURSIVE Dedup(_)
Dedup(list) ==
    IF Len(list) <= 1 THEN list
    ELSE IF list[1] = list[2] THEN Dedup(Tail(list))
    ELSE <<list[1]>> \o Dedup(Tail(list))

\* the fields a call log prompts for, in the order of their first prompt
FieldOrder(log) ==
    LET prompted == SelectSeq(log, LAMBDA c : c.op = "Prompt")
    IN  Dedup([j \in 1..Len(prompted) |-> prompted[j].name])

\* C23: two Fill runs over the same form prompt for the fields in the same
\* order, as far as both runs get, also when two fields have equal group,
\* equal secrecy and equal description.
C23_SameOrderTwice ==
    prevRun.set =>
        LET before == FieldOrder(prevRun.calls)
            now == FieldOrder(calls)
        IN  \A j \in 1..Len(before) : j <= Len(now) => before[j] = now[j]

-----------------------------------------------------------------------------
(* Fill with a Prompter that always returns: every step that can be taken  *)
(* is taken.                                                               *)

\* the forms filled to the end: one or two fields of every type
LiveAttrs == {a \in Attrs : a.Group = "A" /\ a.Description = "d1" /\ ~a.Secret}

LiveForms == UNION {[S -> LiveAttrs] : S \in SUBSET Names}

InitLive ==
    /\ Title \in Titles
    /\ Fields \in LiveForms
    /\ MaxTries \in -1..MaxTriesBound
    /\ pc = "start"
    /\ fs = <<>>
    /\ k = 1
    /\ i = 0
    /\ values = EmptyMap
    /\ result = NilResult
    /\ err = NoError
    /\ calls = <<>>
    /\ IdleIO
    /\ IdleSchema
    /\ IdleHistory
    /\ IdleAttrs

\* ShowTitle and Prompt return, and Fill runs on, whenever it has a step left
SpecLive == InitLive /\ [][Next]_vars /\ WF_vars(Next)

\* Fill has returned
Terminated == pc \in {"done", "aborted"}

\* every Prompt call is one of the first |fields| x tries calls
WithinTotalTries ==
    \A j \in 1..Len(Prompts) : j <= Cardinality(DOMAIN Fields) * DocTries

\* C31: every Fill whose Prompter always returns ends, done or aborted, and
\* by then every Prompt call it made is one of the first |fields| x tries
\* calls (tries = MaxTries, or 3 when MaxTries is 0).
C31_TerminatesWithinTries == <>(Terminated /\ WithinTotalTries)

\* a form of two fields was filled with two tries each, all four used
C31_Witness ==
    /\ pc = "done"
    /\ MaxTries = 2
    /\ Cardinality(DOMAIN Fields) = 2
    /\ Len(Prompts) = 4

\* ShowTitle was called and returned an error
TitleRefused == \E p \in 1..Len(calls) : calls[p].op = "ShowTitle" /\ calls[p].err # NoError

\* C32: with a negative MaxTries, Fill on a form that has fields makes no
\* Prompt call, and once it has returned (the title, if any, having been
\* shown) it has failed with "cannot complete form: too many invalid inputs"
\* and returns no map; a field gets a third Prompt call only when MaxTries is
\* 0 or at least 3.
C32_NegativeMaxTries ==
    /\ (MaxTries < 0 /\ DOMAIN Fields # {}) =>
          /\ Len(Prompts) = 0
          /\ (Terminated /\ ~TitleRefused) =>
                (pc = "aborted" /\ err = TooManyError /\ result.isNil)
    /\ \A n \in DOMAIN Fields :
          Len(PromptsFor(n)) >= 3 => (MaxTries = 0 \/ MaxTries >= 3)

\* Fill with MaxTries -1 on a form of two fields, title shown, failed at once
C32_Witness ==
    /\ MaxTries = -1
    /\ DOMAIN Fields = Names
    /\ calls = <<TitleCall("Test Title", NoError)>>
    /\ pc = "aborted"
    /\ err = TooManyError

-----------------------------------------------------------------------------
(* Fill on fields that declare an enumeration of values and a mandatory    *)
(* flag.                                                                   *)

\* attributes with Values and Mandatory set or not
EnumAttrs ==
    [Group : {"A"}, Secret : {FALSE}, Description : {"d1"},
     Type : {Tstring, Tint}, Mandatory : BOOLEAN,
     Values : {NilValues, ValuesOf(<<StringV("3")>>)}]

EnumForms == UNION {[S -> EnumAttrs] : S \in SUBSET Names}

InitEnum ==
    /\ Title \in Titles
    /\ Fields \in EnumForms
    /\ MaxTries \in {-1, 1}
    /\ pc = "start"
    /\ fs = <<>>
    /\ k = 1
    /\ i = 0
    /\ values = EmptyMap
    /\ result = NilResult
    /\ err = NoError
    /\ calls = <<>>
    /\ IdleIO
    /\ IdleSchema
    /\ IdleHistory
    /\ IdleAttrs

SpecEnum == InitEnum /\ [][Next]_vars

\* C33: a response that the coercion of the field's declared type accepts is
\* the last Prompt call for the field and its coerced value is recorded and
\* returned, whatever the attribute's values and mandatory flag are: a
\* response outside values, or an empty string for a mandatory string field,
\* is accepted on the try it is given.
C33_TypeOnly ==
    \A n \in DOMAIN Fields :
        LET ps == PromptsFor(n) IN
        \A j \in 1..Len(ps) :
            (/\ ps[j].err = NoError
             /\ Fields[n].Type \in SupportedTypes
             /\ Coerced(Fields[n], ps[j].data).ok) =>
                /\ j = Len(ps)
                /\ n \in DOMAIN values
                /\ values[n] = Coerced(Fields[n], ps[j].data).val
                /\ pc = "done" => result.m[n] = Coerced(Fields[n], ps[j].data).val

\* a mandatory string field got the empty string and an int field whose only
\* value is "3" got "1": both were taken at the first try and returned
C33_Witness ==
    /\ pc = "done"
    /\ DOMAIN Fields = {"a1", "b1"}
    /\ Fields["a1"].Type = Tstring
    /\ Fields["a1"].Mandatory
    /\ Fields["b1"].Type = Tint
    /\ Fields["b1"].Values = ValuesOf(<<StringV("3")>>)
    /\ Len(Prompts) = 2
    /\ result.m["a1"] = StringV("")
    /\ result.m["b1"] = IntV("1")

-----------------------------------------------------------------------------
(* Fill, IOPrompter and ValidationSchema side by side: one of them runs,   *)
(* from any of its initial states.                                         *)

InitAny == InitLive \/ InitIO \/ InitSchema

NextAny ==
    \/ FillShowTitle
    \/ FillNoTitle
    \/ Prompt
    \/ TooManyInvalid
    \/ FillReturn
    \/ ShowTitle
    \/ PromptWrite
    \/ Read
    \/ ReadPassword
    \/ ValidationSchemaRange
    \/ ValidationSchemaReturn
    \/ Coerce

SpecAny == InitAny /\ [][NextAny]_vars

\* C34: no step of Fill, of IOPrompter or of ValidationSchema changes what
\* it was given: the form (title and fields) and MaxTries, the attribute
\* prompted for, the Fields value compiled, and the environment keep their
\* value, on the paths that end in an error as on the others.
C34_InputsUnchanged ==
    [][/\ Title' = Title
       /\ Fields' = Fields
       /\ MaxTries' = MaxTries
       /\ ioAttr' = ioAttr
       /\ env' = env
       /\ sFields' = sFields]_vars

\* ValidationSchema has returned on a Fields value whose two attributes have
\* enumerated values that coercion turns into other values
C34_Witness ==
    /\ Compiled
    /\ DOMAIN sFields = {"a1", "b1"}
    /\ sFields["a1"].Type = Tint
    /\ sFields["a1"].Values = ValuesOf(<<StringV("1")>>)
    /\ sret.fields.m["a1"].vals = <<IntV("1")>>

====
